---------------------------- MODULE Spec2Model ----------------------------
(***************************************************************************)
(* A model of src/p7_scoredata.c: the P7_SCOREDATA object of HMMER, its    *)
(* creation from a profile, its clone, its second phase                    *)
(* (p7_hmm_ScoreDataComputeRest) and its destruction, over an explicit     *)
(* heap of malloc'ed blocks.                                               *)
(*                                                                         *)
(* Conventions.  A C array is a function over 0..n-1, so the indices are   *)
(* the code's.  A float is an integer; a transition probability 2^-e is    *)
(* held as its exponent e.  A pointer is NULL, an address (a positive      *)
(* integer, a key of heap) or Wild (an indeterminate non-null value).      *)
(* Memory that malloc returns is uninitialised: in a run the cells the     *)
(* code never writes hold zero bytes (junk = FALSE) or garbage             *)
(* (junk = TRUE).                                                          *)
(***************************************************************************)
EXTENDS Integers, Sequences, FiniteSets, TLC

VARIABLES
  prof,      \* the profile (om, gm): one template id per position 1..M
  junk,    \* what uninitialised memory holds in this run
  heap,      \* address -> block, for the blocks that are allocated
  slot,      \* the caller's two P7_SCOREDATA* variables
  owned,     \* per slot: blocks allocated for its buffer and not yet freed
  ok,        \* per slot: the buffer came from successful calls only
  cloneOf,   \* per slot: the slot its buffer was cloned from (0: none)
  last,      \* the last call: operation, slot, outcome
  faults,    \* allocation failures injected so far
  nwrites,   \* caller writes into a clone so far
  crashed    \* the process aborted (free() of an invalid pointer)

vars == <<prof, junk, heap, slot, owned, ok, cloneOf, last, faults, nwrites, crashed>>

---------------------------------------------------------------------------
(* Bounds of the model *)

MaxM == 3
MaxGrowM == 11
MaxFaults == 1
MaxLeaked == 0
MaxWrites == 1

(* Program constants *)

NULL == 0
Wild == -1
eslOK == 0
eslEMEM == 5
p7O_NTRANS == 8
p7O_MI == 5
p7O_II == 6
ExtLen == 10
BetaBits == 23
WeightScale == 1000

Slots == {1, 2}

---------------------------------------------------------------------------
(* The inputs: an alphabet and per-position templates of the profile *)

\* esl_abc_XIsResidue(abc, j) for j = 0..Kp-1: two residues, one degenerate code
Alphabet == <<TRUE, TRUE, FALSE>>

Kp == Len(Alphabet)

XIsResidue(j) == Alphabet[j + 1]

\* What one model position holds: msc = gm->rsc[j][i*p7P_NR + p7P_MSC] per symbol j,
\* ssv = the byte emission scores, fsc = the forward emission scores, tsc = the
\* transition of each of the p7O_NTRANS categories (an exponent e for 2^-e).
Templates == <<
  [msc |-> << 2, -1,  9>>, ssv |-> << 12, 200,   0>>, fsc |-> <<3, 1, 2>>,
   tsc |-> <<1, 1, 1, 1, 4, 2, 3, 2>>],
  [msc |-> <<-1, -2,  9>>, ssv |-> <<255,   7,  31>>, fsc |-> <<5, 4, 6>>,
   tsc |-> <<2, 1, 3, 1, 6, 3, 1, 1>>],
  [msc |-> << 1,  3,  9>>, ssv |-> <<  0,  90, 128>>, fsc |-> <<8, 7, 9>>,
   tsc |-> <<1, 2, 2, 2, 5, 5, 2, 3>>],
  [msc |-> << 1,  0,  9>>, ssv |-> << 64,  65,  66>>, fsc |-> <<2, 2, 2>>,
   tsc |-> <<3, 1, 1, 3, 7, 7, 4, 1>>],
  [msc |-> << 4,  4,  9>>, ssv |-> << 17,  18,  19>>, fsc |-> <<1, 6, 1>>,
   tsc |-> <<1, 3, 1, 2, 3, 1, 5, 2>>] >>

\* The templates the profiles are drawn from position by position
GrowIds == {2, 3}

\* The profile of the hand-computed scenario: per-position maxima 2, 0, 3, 1, 4
Scenario == <<1, 2, 3, 4, 5>>

\* om->M
ModelLen(p) == Len(p)

\* gm->rsc[j][i * p7P_NR + p7P_MSC]
Rsc(p, i, j) == Templates[p[i]].msc[j + 1]

JunkPtr(jk) == IF jk THEN Wild ELSE NULL

JunkVal(jk) == IF jk THEN -99 ELSE 0

\* a freshly malloc'ed array of n cells
JunkArr(n, v) == [c \in 0..(n - 1) |-> v]

---------------------------------------------------------------------------
(* scoredata_GetSSVScoreArrays: the score tables and the extension bounds *)

\* p7_oprofile_GetSSVEmissionScoreArray(om, arr): rows 1..M of arr
SSVEmissionScoreArray(p, jk) ==
  [c \in 0..((ModelLen(p) + 1) * Kp - 1) |->
     IF c \div Kp >= 1 THEN Templates[p[c \div Kp]].ssv[(c % Kp) + 1]
                       ELSE JunkVal(jk)]

\* data->ssv_scores_f after the loop of lines 78-86: residues of rows 1..M
SsvScoresF(p, jk) ==
  [c \in 0..((ModelLen(p) + 1) * Kp - 1) |->
     IF c \div Kp >= 1 /\ XIsResidue(c % Kp) THEN Rsc(p, c \div Kp, c % Kp)
                                             ELSE JunkVal(jk)]

\* a variant of MaxStep: the score stored whether or not it is greater
MaxStepLast(cur, sc) == sc

\* line 83: if (score > max_scores[i]) max_scores[i] = score
MaxStep(cur, sc) == IF sc > cur THEN sc ELSE cur

RECURSIVE MaxLoop(_, _, _, _)
\* lines 80-85: the loop over j, from j with the running maximum cur
MaxLoop(p, i, j, cur) ==
  IF j >= Kp THEN cur
  ELSE MaxLoop(p, i, j + 1,
               IF XIsResidue(j) THEN MaxStep(cur, Rsc(p, i, j)) ELSE cur)

\* max_scores after lines 78-86; max_scores[0] is never written
MaxScores(p, jk) ==
  [i \in 0..ModelLen(p) |-> IF i = 0 THEN JunkVal(jk) ELSE MaxLoop(p, i, 0, 0)]

\* a variant of FwdIdx: the sum started at position i itself
FwdIdxOff(i, j) == i + j

\* lines 100, 103: the positions whose maxima are added at step j of row i
FwdIdx(i, j) == i + j + 1

RevIdx(M, i, j) == M - i - j

\* a variant of ExtFill: the entries past the model end left as they were
ExtFillNone(j, rf, rr) == [fwd |-> rf, rev |-> rr]

RECURSIVE ExtFill(_, _, _)
\* lines 107-110: for ( ; j<10; j++) row[j] = row[j-1], on the pair of rows
ExtFill(j, rf, rr) ==
  IF j >= ExtLen THEN [fwd |-> rf, rev |-> rr]
  ELSE ExtFill(j + 1, [rf EXCEPT ![j] = rf[j - 1]], [rr EXCEPT ![j] = rr[j - 1]])

RECURSIVE ExtAccum(_, _, _, _, _, _, _, _)
\* lines 99-106: the accumulating loop of iteration i, then the fill
ExtAccum(max, M, i, j, scf, scr, rf, rr) ==
  IF j < ExtLen /\ i + j + 1 <= M
  THEN LET f == scf + max[FwdIdx(i, j)]
           r == scr + max[RevIdx(M, i, j)]
       IN  ExtAccum(max, M, i, j + 1, f, r,
                    [rf EXCEPT ![j] = f], [rr EXCEPT ![j] = r])
  ELSE ExtFill(j, rf, rr)

\* iteration i of the loop of lines 96-111: fwd is opt_ext_fwd[i], rev is
\* opt_ext_rev[M-i]
ExtRows(max, M, i, jk) ==
  ExtAccum(max, M, i, 0, 0, 0,
           JunkArr(ExtLen, JunkVal(jk)), JunkArr(ExtLen, JunkVal(jk)))

\* opt_ext_fwd[i] and opt_ext_rev[r] once the loop of lines 96-111 has run
OptExtFwdRow(p, i, jk) ==
  ExtRows(MaxScores(p, jk), ModelLen(p), i, jk).fwd

OptExtRevRow(p, r, jk) ==
  ExtRows(MaxScores(p, jk), ModelLen(p), ModelLen(p) - r, jk).rev

---------------------------------------------------------------------------
(* p7_hmm_ScoreDataComputeRest: the window weights *)

\* p7_oprofile_GetFwdEmissionScoreArray(om, arr)
FwdEmissionScoreArray(p, jk) ==
  [c \in 0..((ModelLen(p) + 1) * Kp - 1) |->
     IF c \div Kp >= 1 THEN Templates[p[c \div Kp]].fsc[(c % Kp) + 1]
                       ELSE JunkVal(jk)]

\* p7_oprofile_GetFwdTransitionArray(om, t, arr)
FwdTransitionArray(p, t, jk) ==
  [i \in 0..ModelLen(p) |->
     IF i >= 1 THEN Templates[p[i]].tsc[t + 1] ELSE JunkVal(jk)]

\* line 343: 2 + (int)(log(beta / t_mis[i]) / log(t_iis[i])), with beta = 1e-7,
\* t_mis[i] = 2^-mi and t_iis[i] = 2^-ii: the quotient is (23.25.. - mi) / ii,
\* whose integer part is (23 - mi) \div ii for 0 <= mi <= 23 and ii >= 1
RawLength(mi, ii) == 2 + ((BetaBits - mi) \div ii)

RECURSIVE RawLoop(_, _, _, _, _, _)
\* lines 341-345: prefix_lengths[i] = raw length, sum += it; i from 1 to M-1
RawLoop(tmis, tiis, M, i, pl, sum) ==
  IF i >= M THEN [pl |-> pl, sum |-> sum]
  ELSE LET r == RawLength(tmis[i], tiis[i])
       IN  RawLoop(tmis, tiis, M, i + 1, [pl EXCEPT ![i] = r], sum + r)

\* line 350: prefix_lengths[i] /= sum, a weight in units of 1/WeightScale
Divide(x, sum) == (x * WeightScale) \div sum

RECURSIVE NormLoop(_, _, _, _)
\* lines 349-350
NormLoop(pl, sum, M, i) ==
  IF i >= M THEN pl
  ELSE NormLoop([pl EXCEPT ![i] = Divide(pl[i], sum)], sum, M, i + 1)

\* prefix_lengths after lines 341-350: the normalized, not yet cumulated weights
Normalized(tmis, tiis, M, jk) ==
  LET raw  == RawLoop(tmis, tiis, M, 1, JunkArr(M + 1, JunkVal(jk)), 0)
      zero == [raw.pl EXCEPT ![0] = 0, ![M] = 0]
  IN  NormLoop(zero, raw.sum, M, 1)

RECURSIVE SuffixLoop(_, _, _)
\* lines 353-354: suffix_lengths[i] = suffix_lengths[i+1] + prefix_lengths[i-1]
SuffixLoop(pl, sl, i) ==
  IF i < 1 THEN sl
  ELSE SuffixLoop(pl, [sl EXCEPT ![i] = sl[i + 1] + pl[i - 1]], i - 1)

\* lines 352-354
Suffix(pl, M, jk) ==
  SuffixLoop(pl, [JunkArr(M + 1, JunkVal(jk)) EXCEPT ![M] = pl[M - 1]], M - 1)

RECURSIVE CumulateLoop(_, _, _)
\* lines 355-356: prefix_lengths[i] += prefix_lengths[i-1]
CumulateLoop(pl, M, i) ==
  IF i >= M THEN pl
  ELSE CumulateLoop([pl EXCEPT ![i] = pl[i] + pl[i - 1]], M, i + 1)

\* a variant of WindowWeights: the cumulation of lines 355-356 done before
\* the suffix weights are built
WindowWeightsCumFirst(tmis, tiis, M, jk) ==
  LET cum == CumulateLoop(Normalized(tmis, tiis, M, jk), M, 2)
  IN  [prefix |-> cum, suffix |-> Suffix(cum, M, jk)]

\* lines 341-356: prefix_lengths and suffix_lengths as ComputeRest leaves them
WindowWeights(tmis, tiis, M, jk) ==
  LET norm == Normalized(tmis, tiis, M, jk)
  IN  [prefix |-> CumulateLoop(norm, M, 2), suffix |-> Suffix(norm, M, jk)]

---------------------------------------------------------------------------
(* The heap *)

RECURSIVE FreshFrom(_, _, _)
\* the n lowest addresses from a on that are not allocated in h, in order
FreshFrom(h, a, n) ==
  IF n = 0 THEN <<>>
  ELSE IF a \in DOMAIN h THEN FreshFrom(h, a + 1, n)
  ELSE <<a>> \o FreshFrom(h, a + 1, n - 1)

\* malloc: the blocks that n allocations from heap h return, with no free() in
\* between: the n lowest addresses that are not allocated, lowest first
Fresh(h, n) == FreshFrom(h, 1, n)

\* ESL_ALLOC number k of a call whose allocation number failAt fails (0: none)
Got(k, failAt) == failAt = 0 \/ k < failAt

\* the pointer variable that ESL_ALLOC number k assigns: the block, NULL when
\* this allocation fails, its earlier value when the call failed before it
PtrOf(fr, k, failAt, init) ==
  IF Got(k, failAt) THEN fr[k]
  ELSE IF k = failAt THEN NULL ELSE init

\* h with the blocks added or replaced, blocks[a] at address a
WithBlocks(h, blocks) ==
  [a \in DOMAIN h \cup DOMAIN blocks |->
     IF a \in DOMAIN blocks THEN blocks[a] ELSE h[a]]

\* free(p) for an allocated p
Release(h, p) == [a \in DOMAIN h \ {p} |-> h[a]]

RECURSIVE FreeAll(_, _, _)
\* the calls free(ps[n]), free(ps[n+1]), ... in order: free(NULL) does nothing,
\* free() of an allocated block releases it, free() of anything else (an
\* indeterminate pointer, a block already freed) is invalid and aborts
FreeAll(h, ps, n) ==
  IF n > Len(ps) THEN [heap |-> h, bad |-> FALSE]
  ELSE IF ps[n] = NULL THEN FreeAll(h, ps, n + 1)
  ELSE IF ps[n] \in DOMAIN h THEN FreeAll(Release(h, ps[n]), ps, n + 1)
  ELSE [heap |-> h, bad |-> TRUE]

\* the P7_SCOREDATA fields of lines 184-191 and 233-239
NullFields ==
  [ssv_scores |-> NULL, ssv_scores_f |-> NULL, opt_ext_fwd |-> NULL,
   opt_ext_rev |-> NULL, prefix_lengths |-> NULL, suffix_lengths |-> NULL,
   fwd_scores |-> NULL, fwd_transitions |-> NULL]

Struct(M, type, f) ==
  [M |-> M, type |-> type,
   ssv_scores |-> f.ssv_scores, ssv_scores_f |-> f.ssv_scores_f,
   opt_ext_fwd |-> f.opt_ext_fwd, opt_ext_rev |-> f.opt_ext_rev,
   prefix_lengths |-> f.prefix_lengths, suffix_lengths |-> f.suffix_lengths,
   fwd_scores |-> f.fwd_scores, fwd_transitions |-> f.fwd_transitions]

\* the blocks no live buffer of the caller accounts for
Leaked == DOMAIN heap \ UNION {owned[s] : s \in {t \in Slots : slot[t] # NULL}}

\* The caller makes a call that allocates only while fewer than MaxFaults
\* allocations have failed and at most MaxLeaked blocks have leaked, and
\* before it writes into a clone
MayAllocate ==
  faults < MaxFaults /\ nwrites = 0 /\ Cardinality(Leaked) <= MaxLeaked

\* a call's record: the operation, the slot, whether the buffer it was given came
\* from successful calls only, whether an allocation failed, whether free() was
\* given an invalid pointer, and the value returned
Call(op, s, wf, failed, bad, ret) ==
  [op |-> op, s |-> s, wf |-> wf, failed |-> failed, bad |-> bad, ret |-> ret]

---------------------------------------------------------------------------
(* p7_hmm_ScoreDataCreate and scoredata_GetSSVScoreArrays *)

\* The ESL_ALLOCs of a create, in order: 1 the P7_SCOREDATA (line 182), 2 the
\* score table (line 70 or 75) and, with gm, 3 max_scores (line 76), 4
\* opt_ext_fwd (line 89), 5 opt_ext_rev (line 90), then opt_ext_fwd[i] and
\* opt_ext_rev[i] for i = 1..M-1 (lines 93-94)
CreateAllocs(M, useGm) == IF useGm THEN 5 + 2 * (M - 1) ELSE 2

FwdRowAlloc(i) == 4 + 2 * i

RevRowAlloc(i) == 5 + 2 * i

\* the return value of p7_hmm_ScoreDataCreate: line 193 drops the status of
\* scoredata_GetSSVScoreArrays, so only a failure of line 182 gives NULL
CreateResult(fr, failAt) == PtrOf(fr, 1, failAt, NULL)

\* the P7_SCOREDATA as the create leaves it
CreateStruct(fr, M, useGm, failAt) ==
  Struct(M, IF useGm THEN "fm" ELSE "std",
    [NullFields EXCEPT
       !.ssv_scores   = IF useGm THEN NULL ELSE PtrOf(fr, 2, failAt, NULL),
       !.ssv_scores_f = IF useGm THEN PtrOf(fr, 2, failAt, NULL) ELSE NULL,
       !.opt_ext_fwd  = IF useGm THEN PtrOf(fr, 4, failAt, NULL) ELSE NULL,
       !.opt_ext_rev  = IF useGm THEN PtrOf(fr, 5, failAt, NULL) ELSE NULL])

\* the block of allocation k as the create leaves it
CreateBlock(fr, p, useGm, failAt, jk, k) ==
  LET M == ModelLen(p)
  IN  IF k = 1 THEN CreateStruct(fr, M, useGm, failAt)
      ELSE IF ~useGm THEN SSVEmissionScoreArray(p, jk)
      ELSE IF k = 2 THEN (IF Got(3, failAt) THEN SsvScoresF(p, jk)
                          ELSE JunkArr((M + 1) * Kp, JunkVal(jk)))
      ELSE IF k = 3 THEN MaxScores(p, jk)
      ELSE IF k = 4 THEN
        [i \in 0..M |-> IF i \in 1..(M - 1)
                        THEN PtrOf(fr, FwdRowAlloc(i), failAt, JunkPtr(jk))
                        ELSE JunkPtr(jk)]
      ELSE IF k = 5 THEN
        [i \in 0..M |-> IF i \in 1..(M - 1)
                        THEN PtrOf(fr, RevRowAlloc(i), failAt, JunkPtr(jk))
                        ELSE JunkPtr(jk)]
      ELSE IF failAt # 0 THEN JunkArr(ExtLen, JunkVal(jk))
      ELSE IF k % 2 = 0 THEN OptExtFwdRow(p, (k - 4) \div 2, jk)
      ELSE OptExtRevRow(p, (k - 5) \div 2, jk)

\* the allocations that are still allocated when the create returns:
\* max_scores is freed on line 112, which only a create without failure reaches
CreateKept(M, useGm, failAt) ==
  {k \in 1..CreateAllocs(M, useGm) :
     Got(k, failAt) /\ ~(useGm /\ k = 3 /\ failAt = 0)}

\* the caller's s = p7_hmm_ScoreDataCreate(om, useGm ? gm : NULL), in which
\* allocation number failAt fails
Create(s, useGm, failAt) ==
  /\ ~crashed
  /\ ModelLen(prof) >= 1
  /\ slot[s] = NULL
  /\ MayAllocate
  /\ failAt \in 0..CreateAllocs(ModelLen(prof), useGm)
  /\ \E fr \in {Fresh(heap, CreateAllocs(ModelLen(prof), useGm))} :
       LET kept == CreateKept(ModelLen(prof), useGm, failAt)
           as   == {fr[k] : k \in kept}
           blk(a) == CreateBlock(fr, prof, useGm, failAt, junk,
                                 CHOOSE k \in kept : fr[k] = a)
       IN  /\ heap' = WithBlocks(heap, [a \in as |-> blk(a)])
           /\ slot' = [slot EXCEPT ![s] = CreateResult(fr, failAt)]
           /\ owned' = [owned EXCEPT ![s] = as]
           /\ last' = Call("create", s, TRUE, failAt # 0, FALSE,
                           CreateResult(fr, failAt))
  /\ ok' = [ok EXCEPT ![s] = (failAt = 0)]
  /\ cloneOf' = [t \in Slots |-> IF t = s \/ cloneOf[t] = s THEN 0 ELSE cloneOf[t]]
  /\ faults' = IF failAt = 0 THEN faults ELSE faults + 1
  /\ UNCHANGED <<prof, junk, nwrites, crashed>>

---------------------------------------------------------------------------
(* p7_hmm_ScoreDataDestroy *)

\* the pointers that lines 132-153 pass to free(), in order
DestroyFrees(h, d) ==
  LET st == h[d]
      one(p) == IF p # NULL THEN <<p>> ELSE <<>>
      rows(arr, lo, hi) ==
        IF arr # NULL
        THEN [n \in 1..(hi - lo + 1) |-> h[arr][lo + n - 1]] \o <<arr>>
        ELSE <<>>
  IN  one(st.ssv_scores) \o one(st.prefix_lengths) \o one(st.suffix_lengths)
        \o one(st.fwd_scores)
        \o rows(st.fwd_transitions, 0, p7O_NTRANS - 1)
        \o rows(st.opt_ext_fwd, 1, st.M - 1)
        \o rows(st.opt_ext_rev, 1, st.M - 1)
        \o <<d>>

\* p7_hmm_ScoreDataDestroy(d) on heap h
DestroyOn(h, d) ==
  IF d = NULL THEN [heap |-> h, bad |-> FALSE]
  ELSE FreeAll(h, DestroyFrees(h, d), 1)

\* the caller's p7_hmm_ScoreDataDestroy(s), after which it drops its pointer;
\* on NULL (line 130) nothing happens
Destroy(s) ==
  /\ ~crashed
  /\ IF slot[s] = NULL THEN UNCHANGED vars
     ELSE /\ \E res \in {DestroyOn(heap, slot[s])} :
               /\ heap' = res.heap
               /\ owned' = [owned EXCEPT ![s] = owned[s] \cap DOMAIN res.heap]
               /\ last' = Call("destroy", s, ok[s], FALSE, res.bad, slot[s])
               /\ crashed' = res.bad
          /\ slot' = [slot EXCEPT ![s] = NULL]
          /\ ok' = [ok EXCEPT ![s] = FALSE]
          /\ cloneOf' = [t \in Slots |->
                           IF t = s \/ cloneOf[t] = s THEN 0 ELSE cloneOf[t]]
          /\ UNCHANGED <<prof, junk, faults, nwrites>>

---------------------------------------------------------------------------
(* p7_hmm_ScoreDataComputeRest *)

\* The ESL_ALLOCs of ComputeRest, in order: 1 fwd_scores (line 324), 2
\* fwd_transitions (line 328), 3.. fwd_transitions[0..p7O_NTRANS-1] (line 331),
\* then prefix_lengths (line 337) and suffix_lengths (line 338)
TransRowAlloc(r) == 3 + r

PrefixAlloc == 3 + p7O_NTRANS

SuffixAlloc == 4 + p7O_NTRANS

\* the P7_SCOREDATA once the ESL_ALLOCs of ComputeRest have run or failed
RestStruct(fr, st, failAt) ==
  [st EXCEPT
     !.fwd_scores      = PtrOf(fr, 1, failAt, st.fwd_scores),
     !.fwd_transitions = PtrOf(fr, 2, failAt, st.fwd_transitions),
     !.prefix_lengths  = PtrOf(fr, PrefixAlloc, failAt, st.prefix_lengths),
     !.suffix_lengths  = PtrOf(fr, SuffixAlloc, failAt, st.suffix_lengths)]

\* the block of allocation k when ComputeRest returns or reaches ERROR
RestBlock(fr, p, failAt, jk, k) ==
  LET M == ModelLen(p)
      ww == WindowWeights(FwdTransitionArray(p, p7O_MI, jk),
                          FwdTransitionArray(p, p7O_II, jk), M, jk)
  IN  IF k = 1 THEN FwdEmissionScoreArray(p, jk)
      ELSE IF k = 2 THEN
        [r \in 0..(p7O_NTRANS - 1) |->
           PtrOf(fr, TransRowAlloc(r), failAt, JunkPtr(jk))]
      ELSE IF k < PrefixAlloc THEN FwdTransitionArray(p, k - 3, jk)
      ELSE IF failAt # 0 THEN JunkArr(M + 1, JunkVal(jk))
      ELSE IF k = PrefixAlloc THEN ww.prefix
      ELSE ww.suffix

\* the heap once the ESL_ALLOCs of ComputeRest on the object at d have run
RestAllocated(h, fr, d, p, failAt, jk) ==
  LET got == {k \in 1..SuffixAlloc : Got(k, failAt)}
      blk(a) == IF a = d THEN RestStruct(fr, h[d], failAt)
                ELSE RestBlock(fr, p, failAt, jk, CHOOSE k \in got : fr[k] = a)
  IN  WithBlocks(h, [a \in {fr[k] : k \in got} \cup {d} |-> blk(a)])

\* the heap when ComputeRest returns: line 361, the ERROR path, destroys the
\* whole object
RestOutcome(h1, d, failAt) ==
  IF failAt = 0 THEN [heap |-> h1, bad |-> FALSE] ELSE DestroyOn(h1, d)

\* the caller's p7_hmm_ScoreDataComputeRest(om, s), in which allocation number
\* failAt fails; the caller drops its pointer when the status is eslEMEM
ComputeRest(s, failAt) ==
  /\ ~crashed
  /\ slot[s] # NULL
  /\ ok[s]
  /\ heap[slot[s]].fwd_scores = NULL
  /\ MayAllocate
  /\ failAt \in 0..SuffixAlloc
  /\ \E fr \in {Fresh(heap, SuffixAlloc)} :
       \E h1 \in {RestAllocated(heap, fr, slot[s], prof, failAt, junk)} :
         \E res \in {RestOutcome(h1, slot[s], failAt)} :
           /\ heap' = res.heap
           /\ owned' = [owned EXCEPT ![s] =
                          (owned[s] \cup {fr[k] : k \in 1..SuffixAlloc})
                            \cap DOMAIN res.heap]
           /\ last' = Call("rest", s, TRUE, failAt # 0, res.bad,
                           IF failAt = 0 THEN eslOK ELSE eslEMEM)
           /\ crashed' = res.bad
  /\ slot' = [slot EXCEPT ![s] = IF failAt = 0 THEN slot[s] ELSE NULL]
  /\ ok' = [ok EXCEPT ![s] = (failAt = 0)]
  /\ cloneOf' = IF failAt = 0 THEN cloneOf
                ELSE [t \in Slots |-> IF t = s \/ cloneOf[t] = s THEN 0 ELSE cloneOf[t]]
  /\ faults' = IF failAt = 0 THEN faults ELSE faults + 1
  /\ UNCHANGED <<prof, junk, nwrites>>

---------------------------------------------------------------------------
(* p7_hmm_ScoreDataClone *)

Req(f, i) == [f |-> f, i |-> i]

\* The ESL_ALLOCs of a clone of st, in order (lines 230-284)
CloneReqs(st) ==
  LET opt(p, r) == IF p # NULL THEN r ELSE <<>>
  IN  <<Req("struct", 0), Req("scores", 0)>>
        \o opt(st.prefix_lengths, <<Req("prefix", 0)>>)
        \o opt(st.suffix_lengths, <<Req("suffix", 0)>>)
        \o opt(st.fwd_scores, <<Req("fwd_scores", 0)>>)
        \o opt(st.opt_ext_fwd,
               <<Req("fwdp", 0)>> \o [n \in 1..(st.M - 1) |-> Req("fwdrow", n)])
        \o opt(st.opt_ext_rev,
               <<Req("revp", 0)>> \o [n \in 1..(st.M - 1) |-> Req("revrow", n)])
        \o opt(st.fwd_transitions,
               <<Req("transp", 0)>> \o [n \in 1..p7O_NTRANS |-> Req("trow", n - 1)])

\* the number of the allocation for field f, row i
ReqIdx(reqs, f, i) == CHOOSE k \in 1..Len(reqs) : reqs[k] = Req(f, i)

\* a clone that copies the pointers of src instead of what they point to
CloneStructShallow(fr, reqs, st, failAt, jk) == st

\* the new P7_SCOREDATA (lines 230-284): ssv_scores_f is assigned only for
\* p7_sd_fm, and is otherwise what malloc left there
CloneStruct(fr, reqs, st, failAt, jk) ==
  LET ptr(src, f) == IF src # NULL THEN PtrOf(fr, ReqIdx(reqs, f, 0), failAt, NULL)
                     ELSE NULL
  IN  Struct(st.M, st.type,
        [ssv_scores      |-> IF st.type = "std" THEN PtrOf(fr, 2, failAt, NULL)
                             ELSE NULL,
         ssv_scores_f    |-> IF st.type = "std" THEN JunkPtr(jk)
                             ELSE PtrOf(fr, 2, failAt, JunkPtr(jk)),
         opt_ext_fwd     |-> ptr(st.opt_ext_fwd, "fwdp"),
         opt_ext_rev     |-> ptr(st.opt_ext_rev, "revp"),
         prefix_lengths  |-> ptr(st.prefix_lengths, "prefix"),
         suffix_lengths  |-> ptr(st.suffix_lengths, "suffix"),
         fwd_scores      |-> ptr(st.fwd_scores, "fwd_scores"),
         fwd_transitions |-> ptr(st.fwd_transitions, "transp")])

\* memcpy(dst, src, n * sizeof(cell)) into a fresh block of n cells
Memcpy(h, src, n) == [c \in 0..(n - 1) |-> h[src][c]]

\* the block of request r of a clone of st with alphabet size kp
CloneBlock(h, fr, reqs, st, kp, failAt, jk, r) ==
  LET rowptrs(f, lo, hi, n) ==
        [i \in 0..(n - 1) |->
           IF i \in lo..hi THEN PtrOf(fr, ReqIdx(reqs, f, i), failAt, JunkPtr(jk))
           ELSE JunkPtr(jk)]
  IN  CASE r.f = "struct" -> CloneStruct(fr, reqs, st, failAt, jk)
        [] r.f = "scores" ->
             Memcpy(h, IF st.type = "std" THEN st.ssv_scores ELSE st.ssv_scores_f,
                    (st.M + 1) * kp)
        [] r.f = "prefix" -> Memcpy(h, st.prefix_lengths, st.M + 1)
        [] r.f = "suffix" -> Memcpy(h, st.suffix_lengths, st.M + 1)
        [] r.f = "fwd_scores" -> Memcpy(h, st.fwd_scores, st.M + 1)
        [] r.f = "fwdp" -> rowptrs("fwdrow", 1, st.M - 1, st.M + 1)
        [] r.f = "revp" -> rowptrs("revrow", 1, st.M - 1, st.M + 1)
        [] r.f = "fwdrow" -> Memcpy(h, h[st.opt_ext_fwd][r.i], ExtLen)
        [] r.f = "revrow" -> Memcpy(h, h[st.opt_ext_rev][r.i], ExtLen)
        [] r.f = "transp" -> rowptrs("trow", 0, p7O_NTRANS - 1, p7O_NTRANS)
        [] r.f = "trow" -> Memcpy(h, h[st.fwd_transitions][r.i], st.M + 1)

\* the return value of p7_hmm_ScoreDataClone: NULL on any failure (line 289)
CloneResult(fr, failAt) == IF failAt = 0 THEN fr[1] ELSE NULL

\* the caller's t = p7_hmm_ScoreDataClone(s, Kp), in which allocation number
\* failAt fails
Clone(s, t, failAt) ==
  /\ ~crashed
  /\ s # t
  /\ slot[s] # NULL
  /\ ok[s]
  /\ slot[t] = NULL
  /\ MayAllocate
  /\ \E reqs \in {CloneReqs(heap[slot[s]])} :
       /\ failAt \in 0..Len(reqs)
       /\ \E fr \in {Fresh(heap, Len(reqs))} :
            LET got == {k \in 1..Len(reqs) : Got(k, failAt)}
                as  == {fr[k] : k \in got}
                blk(a) == CloneBlock(heap, fr, reqs, heap[slot[s]], Kp, failAt, junk,
                                     reqs[CHOOSE k \in got : fr[k] = a])
            IN  /\ heap' = WithBlocks(heap, [a \in as |-> blk(a)])
                /\ slot' = [slot EXCEPT ![t] = CloneResult(fr, failAt)]
                /\ owned' = [owned EXCEPT ![t] = as]
                /\ last' = Call("clone", t, TRUE, failAt # 0, FALSE,
                                CloneResult(fr, failAt))
  /\ ok' = [ok EXCEPT ![t] = (failAt = 0)]
  /\ cloneOf' = [cloneOf EXCEPT ![t] = IF failAt = 0 THEN s ELSE 0]
  /\ faults' = IF failAt = 0 THEN faults ELSE faults + 1
  /\ UNCHANGED <<prof, junk, nwrites, crashed>>

---------------------------------------------------------------------------
(* The caller *)

\* the arrays of values reachable from the P7_SCOREDATA at d
DataBlocks(h, d) ==
  LET st == h[d]
      rows(arr, lo, hi) == IF arr # NULL THEN {h[arr][i] : i \in lo..hi} ELSE {}
  IN  ({IF st.type = "std" THEN st.ssv_scores ELSE st.ssv_scores_f,
        st.prefix_lengths, st.suffix_lengths, st.fwd_scores} \ {NULL})
        \cup rows(st.opt_ext_fwd, 1, st.M - 1)
        \cup rows(st.opt_ext_rev, 1, st.M - 1)
        \cup rows(st.fwd_transitions, 0, p7O_NTRANS - 1)

\* the values a caller writes into a clone
Scribble == {77}

\* the caller overwrites every element of one array of the clone in slot t
Write(t) ==
  /\ ~crashed
  /\ slot[t] # NULL
  /\ ok[t]
  /\ cloneOf[t] # 0
  /\ nwrites < MaxWrites
  /\ \E a \in DataBlocks(heap, slot[t]) : \E v \in Scribble :
       heap' = [heap EXCEPT ![a] = [c \in DOMAIN heap[a] |-> v]]
  /\ nwrites' = nwrites + 1
  /\ last' = Call("write", t, TRUE, FALSE, FALSE, slot[t])
  /\ UNCHANGED <<prof, junk, slot, owned, ok, cloneOf, faults, crashed>>

\* the profile gets one more position, before any P7_SCOREDATA is made of it
Grow(id) ==
  /\ Len(prof) < MaxGrowM
  /\ DOMAIN heap = {}
  /\ \A s \in Slots : slot[s] = NULL
  /\ prof' = Append(prof, id)
  /\ UNCHANGED <<junk, heap, slot, owned, ok, cloneOf, last, faults, nwrites, crashed>>

---------------------------------------------------------------------------
(* The specifications *)

InitRest ==
  /\ junk \in BOOLEAN
  /\ heap = <<>>
  /\ slot = [s \in Slots |-> NULL]
  /\ owned = [s \in Slots |-> {}]
  /\ ok = [s \in Slots |-> FALSE]
  /\ cloneOf = [s \in Slots |-> 0]
  /\ last = Call("none", 1, FALSE, FALSE, FALSE, NULL)
  /\ faults = 0
  /\ nwrites = 0
  /\ crashed = FALSE

\* the profiles of the life-cycle specifications: one of each length to MaxM
Profiles == {SubSeq(Scenario \o Scenario, 1, n) : n \in 1..MaxM}

Init == prof \in Profiles /\ InitRest

\* the allocation that fails in a call: none (0) or one of its ESL_ALLOCs
FailPoints == 0..(14 + 2 * Len(prof))

Next ==
  \/ \E useGm \in BOOLEAN, failAt \in FailPoints : Create(1, useGm, failAt)
  \/ \E s \in Slots, failAt \in FailPoints : ComputeRest(s, failAt)
  \/ \E s \in Slots, t \in Slots, failAt \in FailPoints : Clone(s, t, failAt)
  \/ \E s \in Slots : Destroy(s)

\* The life cycle of P7_SCOREDATA objects, with allocation failures
Spec == Init /\ [][Next]_vars

NextAlias ==
  \/ \E useGm \in BOOLEAN : Create(1, useGm, 0)
  \/ \E s \in Slots : ComputeRest(s, 0)
  \/ \E s \in Slots, t \in Slots : Clone(s, t, 0)
  \/ \E s \in Slots : Destroy(s)
  \/ \E t \in Slots : Write(t)

\* The life cycle without allocation failures, with a caller that writes into
\* the arrays of a clone
SpecAlias == Init /\ [][NextAlias]_vars

InitProfile == prof \in {<<>>, Scenario} /\ InitRest

NextProfile ==
  \/ \E id \in GrowIds : Grow(id)
  \/ Create(1, TRUE, 0)
  \/ ComputeRest(1, 0)

\* The arrays computed from a profile, for profiles of every length to MaxGrowM
SpecProfile == InitProfile /\ [][NextProfile]_vars

---------------------------------------------------------------------------
(* What the claims speak of *)

\* the P7_SCOREDATA of slot s
Obj(s) == heap[slot[s]]

\* the score table of the active mode
ScoreTable(st) == IF st.type = "std" THEN st.ssv_scores ELSE st.ssv_scores_f

\* what a pointer leads to: nothing (NULL), an allocated block, or a block
\* that is not allocated
Target(p) ==
  IF p = NULL THEN [at |-> "null", v |-> <<>>]
  ELSE IF p \in DOMAIN heap THEN [at |-> "block", v |-> heap[p]]
  ELSE [at |-> "unallocated", v |-> <<>>]

\* the rows lo..hi that the pointer array at p leads to
TargetRows(p, lo, hi) ==
  IF p \in DOMAIN heap THEN [i \in lo..hi |-> Target(heap[p][i])] ELSE <<>>

\* everything a reader of the P7_SCOREDATA of slot s sees
View(s) ==
  IF slot[s] \notin DOMAIN heap THEN <<>>
  ELSE LET st == Obj(s)
       IN  <<st.M, st.type, Target(ScoreTable(st)),
             Target(st.prefix_lengths), Target(st.suffix_lengths),
             Target(st.fwd_scores),
             Target(st.opt_ext_fwd), TargetRows(st.opt_ext_fwd, 1, st.M - 1),
             Target(st.opt_ext_rev), TargetRows(st.opt_ext_rev, 1, st.M - 1),
             Target(st.fwd_transitions),
             TargetRows(st.fwd_transitions, 0, p7O_NTRANS - 1)>>

\* the allocations reachable from the P7_SCOREDATA of slot s, itself included
Reach(s) ==
  LET st == Obj(s)
      rows(p, lo, hi) == IF p \in DOMAIN heap THEN {p} \cup {heap[p][i] : i \in lo..hi}
                         ELSE {}
  IN  ({slot[s], ScoreTable(st), st.prefix_lengths, st.suffix_lengths,
        st.fwd_scores}
         \cup rows(st.opt_ext_fwd, 1, st.M - 1)
         \cup rows(st.opt_ext_rev, 1, st.M - 1)
         \cup rows(st.fwd_transitions, 0, p7O_NTRANS - 1)) \ {NULL, Wild}

\* the cells 0..n-1 of the array at q are those of the array at p
SameCells(p, q, n) ==
  /\ q \in DOMAIN heap
  /\ \A c \in 0..(n - 1) :
       c \in DOMAIN heap[q] /\ heap[q][c] = heap[p][c]

\* the field at q is populated as the field at p is, with the same n cells
SameArray(p, q, n) == p # NULL => SameCells(p, q, n)

\* rows lo..hi of the pointer array at q hold the n cells of those at p
SameRows(p, q, lo, hi, n) ==
  p # NULL =>
    /\ q \in DOMAIN heap
    /\ \A i \in lo..hi : SameCells(heap[p][i], heap[q][i], n)

\* the buffer of slot t is value-equal to that of slot s, over the full extent
\* of every field, with alphabet size kp
ValueEqual(s, t, kp) ==
  LET a == Obj(s)
      b == Obj(t)
  IN  /\ b.M = a.M
      /\ b.type = a.type
      /\ SameCells(ScoreTable(a), ScoreTable(b), (a.M + 1) * kp)
      /\ SameRows(a.opt_ext_fwd, b.opt_ext_fwd, 1, a.M - 1, ExtLen)
      /\ SameRows(a.opt_ext_rev, b.opt_ext_rev, 1, a.M - 1, ExtLen)
      /\ SameArray(a.prefix_lengths, b.prefix_lengths, a.M + 1)
      /\ SameArray(a.suffix_lengths, b.suffix_lengths, a.M + 1)
      /\ SameRows(a.fwd_transitions, b.fwd_transitions, 0, p7O_NTRANS - 1, a.M + 1)
      /\ SameArray(a.fwd_scores, b.fwd_scores, (a.M + 1) * kp)

\* slot s holds a buffer that successful calls made, in Float mode
FloatBuffer(s) == slot[s] # NULL /\ ok[s] /\ Obj(s).type = "fm"

\* slot s holds a buffer on which ComputeRest has succeeded
Windowed(s) == slot[s] # NULL /\ ok[s] /\ Obj(s).suffix_lengths # NULL

\* opt_ext_fwd[i] and opt_ext_rev[i] of the buffer of slot s
ExtFwd(s, i) == heap[heap[Obj(s).opt_ext_fwd][i]]

ExtRev(s, i) == heap[heap[Obj(s).opt_ext_rev][i]]

RECURSIVE SumOver(_, _, _)
\* f[lo] + ... + f[hi]
SumOver(f, lo, hi) == IF lo > hi THEN 0 ELSE f[lo] + SumOver(f, lo + 1, hi)

Min(a, b) == IF a < b THEN a ELSE b

---------------------------------------------------------------------------
(* The claims *)

\* C1: when an allocation of a create fails, the create returns NULL and every
\* block allocated for the call has been released
C1_CreateFailureReleasesAll ==
  (last.op = "create" /\ last.failed) =>
    (last.ret = NULL /\ slot[last.s] = NULL /\ owned[last.s] = {})

\* C2: destroying a buffer that create made (and ComputeRest or clone, when
\* they succeeded) leaves no block allocated on behalf of that buffer
C2_DestroyReleasesAll ==
  (last.op = "destroy" /\ last.wf) => owned[last.s] = {}

\* C3: a successful clone has the mode and the model length of its source, and
\* every field populated in the source is populated in the clone and equal
\* element by element over its full extent, fwd_scores over its
\* (M+1) x alphabetSize entries
C3_CloneValueEqual ==
  (last.op = "clone" /\ ~last.failed) => ValueEqual(cloneOf[last.s], last.s, Kp)

\* C4: no array reachable from a clone is an allocation reachable from its
\* source, and a write into an array of the clone, or the clone's destruction,
\* leaves everything that the source shows unchanged
C4_CloneDoesNotAlias ==
  /\ [](\A t \in Slots :
          (cloneOf[t] # 0 /\ slot[t] # NULL /\ slot[cloneOf[t]] # NULL) =>
            Reach(t) \cap Reach(cloneOf[t]) = {})
  /\ [][\A s \in Slots, t \in Slots :
          (cloneOf[t] = s /\ last'.s = t /\ last'.op \in {"write", "destroy"}) =>
            View(s)' = View(s)]_vars

C4_Witness ==
  /\ last.op = "write"
  /\ cloneOf[last.s] # 0
  /\ Windowed(cloneOf[last.s])
  /\ FloatBuffer(cloneOf[last.s])
  /\ Obj(last.s).M >= 2

\* C5: in Float mode, for every i in 1..M-1 and k in 0..9, extFwd[i][k] is the
\* sum of the per-position maxima at positions i+1 .. min(i+k+1, M); every row
\* has exactly 10 entries, and past the model end an entry repeats the last
\* in-bound one
C5_ExtFwdIsClampedSum ==
  FloatBuffer(1) =>
    LET M   == Obj(1).M
        max == MaxScores(prof, junk)
    IN  \A i \in 1..(M - 1) :
          /\ DOMAIN ExtFwd(1, i) = 0..(ExtLen - 1)
          /\ \A k \in 0..(ExtLen - 1) :
               /\ ExtFwd(1, i)[k] = SumOver(max, i + 1, Min(i + k + 1, M))
               /\ i + k + 1 > M => ExtFwd(1, i)[k] = ExtFwd(1, i)[M - i - 1]

C5_Witness ==
  /\ FloatBuffer(1)
  /\ Obj(1).M > ExtLen
  /\ ExtFwd(1, 1)[ExtLen - 1] > ExtFwd(1, 1)[ExtLen - 2]
  /\ ExtFwd(1, Obj(1).M - 1)[ExtLen - 1] = ExtFwd(1, Obj(1).M - 1)[0]

\* C6: in Float mode, also where all the residue scores of a position are
\* negative, extFwd[i] and extRev[i] are non-decreasing over their 10 entries,
\* for every i in 1..M-1
C6_ExtRowsNonDecreasing ==
  FloatBuffer(1) =>
    \A i \in 1..(Obj(1).M - 1) : \A k \in 0..(ExtLen - 2) :
      /\ ExtFwd(1, i)[k + 1] >= ExtFwd(1, i)[k]
      /\ ExtRev(1, i)[k + 1] >= ExtRev(1, i)[k]

\* a position all of whose residue scores are negative
AllNegative(i) == \A j \in 0..(Kp - 1) : XIsResidue(j) => Rsc(prof, i, j) < 0

C6_Witness ==
  /\ FloatBuffer(1)
  /\ \E i \in 2..Obj(1).M : AllNegative(i)
  /\ \E i \in 2..Obj(1).M : ~AllNegative(i)

\* the per-position maxima of the scenario, at positions 1..5
ScenarioMaxima == <<2, 0, 3, 1, 4>>

\* the scenario: M = 5, Float mode, per-position maxima 2, 0, 3, 1, 4
InScenario ==
  /\ FloatBuffer(1)
  /\ Obj(1).M = Len(ScenarioMaxima)
  /\ \A i \in 1..Len(ScenarioMaxima) : MaxScores(prof, junk)[i] = ScenarioMaxima[i]

\* C7, as stated: in the scenario extFwd[1] starts 3, 4, 8 and its other seven
\* entries are 8
C7_AsStated ==
  InScenario =>
    \A k \in 0..(ExtLen - 1) : ExtFwd(1, 1)[k] = <<3, 4, 8, 8, 8, 8, 8, 8, 8, 8>>[k + 1]

\* C7, amended: in the scenario extFwd[1] starts 0, 3, 4, 8 (the maximum at
\* position 2 is 0) and its other six entries are 8
C7_ScenarioExtFwd ==
  InScenario =>
    \A k \in 0..(ExtLen - 1) : ExtFwd(1, 1)[k] = <<0, 3, 4, 8, 8, 8, 8, 8, 8, 8>>[k + 1]

C7_Witness == InScenario /\ ExtFwd(1, 1)[3] = 8

\* the raw lengths of the buffer of slot s, from its fwd_transitions
WindowRaw(s) ==
  LET tr == heap[Obj(s).fwd_transitions]
  IN  [i \in 1..(Obj(s).M - 1) |->
         RawLength(heap[tr[p7O_MI]][i], heap[tr[p7O_II]][i])]

\* the normalized weights w before the cumulation: w[0] = 0,
\* w[i] = raw[i] / (raw[1] + ... + raw[M-1])
WindowW(s) ==
  LET raw == WindowRaw(s)
  IN  [i \in 0..(Obj(s).M - 1) |->
         IF i = 0 THEN 0 ELSE Divide(raw[i], SumOver(raw, 1, Obj(s).M - 1))]

\* C8: after ComputeRest, suffixWeight[M] = w[M-1] and suffixWeight[i] =
\* suffixWeight[i+1] + w[i-1] for i = M-1 .. 1, with w the weights before the
\* cumulation, while prefixWeight holds the cumulated weights
C8_SuffixFromUncumulated ==
  Windowed(1) =>
    LET M  == Obj(1).M
        w  == WindowW(1)
        sl == heap[Obj(1).suffix_lengths]
        pl == heap[Obj(1).prefix_lengths]
    IN  /\ sl[M] = w[M - 1]
        /\ \A i \in 1..(M - 1) : sl[i] = sl[i + 1] + w[i - 1]
        /\ \A i \in 1..(M - 1) : pl[i] = SumOver(w, 1, i)

C8_Witness ==
  /\ Windowed(1)
  /\ Obj(1).M >= 4
  /\ WindowW(1)[2] > 0
  /\ heap[Obj(1).prefix_lengths][3] > WindowW(1)[3]

\* C9: when an allocation of ComputeRest fails, it returns eslEMEM, every
\* block allocated for the buffer has been released, and free() was given
\* nothing but blocks that are allocated
C9_RestFailureDestroysAll ==
  (last.op = "rest" /\ last.failed) =>
    (last.ret = eslEMEM /\ ~last.bad /\ owned[last.s] = {})

\* C10: in every buffer that successful creates, clones and ComputeRests
\* made, the score table of the mode is populated and the other one is NULL
C10_ExactlyOneScoreTable ==
  \A s \in Slots :
    (slot[s] # NULL /\ ok[s]) =>
      /\ Obj(s).type = "std" => (Obj(s).ssv_scores # NULL /\ Obj(s).ssv_scores_f = NULL)
      /\ Obj(s).type = "fm" => (Obj(s).ssv_scores_f # NULL /\ Obj(s).ssv_scores = NULL)

===========================================================================
